---- MODULE Spec2Model ----
(***************************************************************************)
(* Model of src/bot.py: the weather command pipeline of the bot.           *)
(*   get_weather           one HTTP request, classified into an outcome    *)
(*   create_weather_graph  renders a chart into the fixed path weather.png *)
(*   weather               the command handler (an asyncio coroutine)      *)
(* Python values of different types are tagged records, so that a str, a   *)
(* dict and None stay distinguishable.                                     *)
(***************************************************************************)
EXTENDS Integers, Sequences, FiniteSets, TLC

VARIABLES
    DEFAULT_LOCATION,  \* the default city, read from the environment once
    pc,                \* per chat: where its weather handler stands
    inv,               \* per chat: its current (or last) weather invocation
    held,              \* per chat: the open weather.png handed to send_photo
    out,               \* per chat: what the invocation sent to the chat
    file,              \* the content of weather.png
    lastRender,        \* history: the arguments of the last completed render
    httpCalls,         \* history: the number of HTTP requests issued
    started,           \* history: the number of weather invocations started
    fetchIn, fetchOut  \* argument and result of get_weather (SpecFetch)

vars == <<DEFAULT_LOCATION, pc, inv, held, out, file, lastRender, httpCalls,
          started, fetchIn, fetchOut>>

pipelineVars == <<DEFAULT_LOCATION, pc, inv, held, out, file, lastRender,
                  httpCalls, started>>

(***************************************************************************)
(* Bounds                                                                  *)
(***************************************************************************)
MaxInvocations == 3
MaxDescLen == 2

Chats == {1, 2}

(***************************************************************************)
(* Python values                                                           *)
(***************************************************************************)
PyNone == [t |-> "None", s |-> ""]
Str(s) == [t |-> "str", s |-> s]

\* f"{city}": str() of the value; None formats as the text None.
Format(v) == IF v.t = "None" THEN "None" ELSE v.s

RECURSIVE Join(_)
\* " ".join(context.args)
Join(args) ==
    IF args = <<>> THEN ""
    ELSE IF Len(args) = 1 THEN args[1]
    ELSE args[1] \o " " \o Join(Tail(args))

\* context.args of the commands /weather, /weather Oslo, /weather New York
ArgLists == {<<>>, <<"Oslo">>, <<"New", "York">>}

\* os.getenv("LOCATION"): unset (None), set to the empty text, or a city.
DefaultLocations == {PyNone, Str(""), Str("Rome")}

(***************************************************************************)
(* JSON payloads of the provider                                           *)
(***************************************************************************)
Chars == {"c", "S"}
upper(c) == CASE c = "c" -> "C" [] c = "s" -> "S" [] OTHER -> c
lower(c) == CASE c = "C" -> "c" [] c = "S" -> "s" [] OTHER -> c

\* Mutant: only the first character is touched (the rest is not lower-cased).
capitalize_first_only(d) ==
    [i \in 1..Len(d) |-> IF i = 1 THEN upper(d[i]) ELSE d[i]]

\* str.capitalize(): first character upper-cased, all the others lower-cased.
capitalize(d) ==
    [i \in 1..Len(d) |-> IF i = 1 THEN upper(d[i]) ELSE lower(d[i])]

Descs == UNION {[1..n -> Chars] : n \in 0..MaxDescLen}

JMissing == [t |-> "missing", n |-> 0, s |-> ""]
JInt(n) == [t |-> "int", n |-> n, s |-> ""]
JStr(s) == [t |-> "str", n |-> 0, s |-> s]

SuccessCod == 200
CodValues == {JMissing, JInt(SuccessCod), JInt(404), JStr("404"), JStr("200")}

\* weather[0].description
DMissing == [t |-> "missing", chars |-> <<>>]
DNull == [t |-> "null", chars |-> <<>>]
DStr(d) == [t |-> "str", chars |-> d]
DescValues == {DMissing, DNull} \cup {DStr(d) : d \in Descs}

\* the `weather` member: absent, not a list, or a list of condition objects
WMissing == [t |-> "missing", items |-> <<>>]
WInt == [t |-> "int", items |-> <<>>]
WList(items) == [t |-> "list", items |-> items]
WeatherValues ==
    {WMissing, WInt, WList(<<>>)} \cup
    {WList(<<[description |-> d]>>) : d \in DescValues}

Temps == {-5, 185}          \* tenths of a degree Celsius
Humidities == {0, 60, 100}
NumValues(S) == {JMissing} \cup {JInt(n) : n \in S}

MMissing == [t |-> "missing", temp |-> JMissing, humidity |-> JMissing]
MNull == [t |-> "null", temp |-> JMissing, humidity |-> JMissing]
MainValues ==
    {MMissing, MNull} \cup
    {[t |-> "object", temp |-> a, humidity |-> h] :
        a \in NumValues(Temps), h \in NumValues(Humidities)}

\* A body that is no JSON; response.json() raises requests' JSONDecodeError
\* (a RequestException since requests 2.27) or a plain ValueError before.
InvalidBody(exc) ==
    [shape |-> "invalid", jsonExc |-> exc, cod |-> JMissing,
     weather |-> WMissing, main |-> MMissing]
\* A JSON body that is a list, not an object.
ListBody ==
    [shape |-> "list", jsonExc |-> "", cod |-> JMissing,
     weather |-> WMissing, main |-> MMissing]
ObjectBody(c, w, m) ==
    [shape |-> "object", jsonExc |-> "", cod |-> c, weather |-> w, main |-> m]

Bodies ==
    {InvalidBody("RequestsJSONDecodeError"), InvalidBody("ValueError"), ListBody}
    \cup {ObjectBody(c, w, m) : c \in CodValues, w \in WeatherValues, m \in MainValues}

Statuses == {200, 304, 404, 500}
TransportExcs == {"ConnectionError", "Timeout"}

TransportFailure(e) == [kind |-> "exc", exc |-> e, status |-> 0, body |-> ListBody]
HttpResponse(st, b) == [kind |-> "http", exc |-> "", status |-> st, body |-> b]

Responses ==
    {TransportFailure(e) : e \in TransportExcs}
    \cup {HttpResponse(st, b) : st \in Statuses, b \in Bodies}

(***************************************************************************)
(* get_weather                                                             *)
(***************************************************************************)
WEATHER_API_KEY == Str("KEY")

\* The request URL; the location and the key are embedded verbatim.
Url(city) ==
    "http://api.openweathermap.org/data/2.5/weather?q=" \o Format(city)
        \o "&appid=" \o Format(WEATHER_API_KEY) \o "&units=metric"

\* The outcome of get_weather: an error text (str) or the weather_info dict.
OStr(text) ==
    [t |-> "str", text |-> text, description |-> <<>>,
     temperature |-> JMissing, humidity |-> JMissing]
ODict(d, temp, hum) ==
    [t |-> "dict", text |-> "", description |-> d,
     temperature |-> temp, humidity |-> hum]

InvalidLocationMsg(city) ==
    OStr("Unable to fetch weather for " \o Format(city)
            \o ". Please check the city name and try again.")
NetworkMsg ==
    OStr("Unable to fetch weather due to a network issue. Please try again later.")
UnexpectedMsg == OStr("An unexpected error occurred. Please try again later.")

\* The subclasses of requests.exceptions.RequestException that can arise.
RequestExceptions ==
    {"ConnectionError", "Timeout", "HTTPError", "RequestsJSONDecodeError"}

\* What the try body did: raised `exc` or returned `ret`; `calls` are the
\* requests issued, `read` the payload members it accessed.
Returned(v, calls, read) == [exc |-> "", ret |-> v, calls |-> calls, read |-> read]
Raised(e, calls, read) == [exc |-> e, ret |-> OStr(""), calls |-> calls, read |-> read]

\* Mutant: only server errors raise.
raise_for_status_5xx(status) == 500 <= status /\ status < 600

\* response.raise_for_status(): HTTPError for 4xx and 5xx, nothing otherwise.
raise_for_status(status) == 400 <= status /\ status < 600

\* Mutant: only the not-found code counts as a failure.
cod_is_404(cod) == cod = JInt(404)

\* data.get("cod") != 200
cod_not_success(cod) == cod # JInt(SuccessCod)

\* Lines 34-44: the three extractions and the weather_info dict.
extract(data, calls) ==
    LET w == data.weather
        m == data.main
        rw == {"cod", "weather"}
        rm == {"cod", "weather", "main"}
    IN  IF w.t = "missing" THEN Raised("KeyError", calls, rw)
        ELSE IF w.t = "int" THEN Raised("TypeError", calls, rw)
        ELSE IF w.items = <<>> THEN Raised("IndexError", calls, rw)
        ELSE IF w.items[1].description.t = "missing" THEN Raised("KeyError", calls, rw)
        ELSE IF w.items[1].description.t = "null" THEN Raised("AttributeError", calls, rw)
        ELSE IF m.t = "missing" THEN Raised("KeyError", calls, rm)
        ELSE IF m.t = "null" THEN Raised("TypeError", calls, rm)
        ELSE IF m.temp.t = "missing" THEN Raised("KeyError", calls, rm)
        ELSE IF m.humidity.t = "missing" THEN Raised("KeyError", calls, rm)
        ELSE Returned(ODict(capitalize(w.items[1].description.chars),
                            m.temp, m.humidity), calls, rm)

\* Lines 24-44: the body of the try statement.
try_body(city, resp) ==
    LET calls == <<Url(city)>>
    IN  IF resp.kind = "exc" THEN Raised(resp.exc, calls, {})
        ELSE IF raise_for_status(resp.status) THEN Raised("HTTPError", calls, {})
        ELSE IF resp.body.shape = "invalid" THEN Raised(resp.body.jsonExc, calls, {})
        ELSE IF resp.body.shape = "list" THEN Raised("AttributeError", calls, {"cod"})
        ELSE IF cod_not_success(resp.body.cod)
             THEN Returned(InvalidLocationMsg(city), calls, {"cod"})
        ELSE extract(resp.body, calls)

\* Lines 45-50: the two except clauses, in order.
except_clauses(exc) ==
    IF exc \in RequestExceptions THEN NetworkMsg ELSE UnexpectedMsg

\* Mutant: a failed attempt is retried once.
get_weather_retry(city, resp) ==
    LET r == try_body(city, resp)
    IN  IF r.exc = "" THEN r
        ELSE Returned(except_clauses(r.exc), r.calls \o r.calls, r.read)

\* get_weather(city) against the response the transport gives.
get_weather(city, resp) ==
    LET r == try_body(city, resp)
    IN  IF r.exc = "" THEN r
        ELSE Returned(except_clauses(r.exc), r.calls, r.read)

(***************************************************************************)
(* create_weather_graph                                                    *)
(***************************************************************************)
NoFile == [t |-> "absent", title |-> "", labels |-> <<>>, values |-> <<>>, ylabel |-> ""]

\* Mutant: the title does not name the location.
Chart_untitled(city, weather_data) ==
    [t |-> "png", title |-> "Weather",
     labels |-> <<"Temperature", "Humidity">>,
     values |-> <<weather_data.temperature.n, weather_data.humidity.n>>,
     ylabel |-> "Values"]

\* The chart written by plt.savefig("weather.png").
Chart(city, weather_data) ==
    [t |-> "png", title |-> "Weather in " \o Format(city),
     labels |-> <<"Temperature", "Humidity">>,
     values |-> <<weather_data.temperature.n, weather_data.humidity.n>>,
     ylabel |-> "Values"]

\* Mutant: an existing weather.png is kept (first writer wins).
create_weather_graph_keep(city, weather_data, old, fs) ==
    IF weather_data.t # "dict" THEN [exc |-> "TypeError", content |-> old]
    ELSE IF fs = "savefig_fails" THEN [exc |-> "OSError", content |-> old]
    ELSE IF old.t = "png" THEN [exc |-> "", content |-> old]
    ELSE [exc |-> "", content |-> Chart(city, weather_data)]

\* create_weather_graph(city, weather_data) on the current content of
\* weather.png: the new content, or the exception it raises.  fs is the
\* state of the file system: "ok", "savefig_fails" (savefig raises OSError)
\* or "open_fails".
create_weather_graph(city, weather_data, old, fs) ==
    IF weather_data.t # "dict" THEN [exc |-> "TypeError", content |-> old]
    ELSE IF fs = "savefig_fails" THEN [exc |-> "OSError", content |-> old]
    ELSE [exc |-> "", content |-> Chart(city, weather_data)]

FsStates == {"ok", "savefig_fails", "open_fails"}

(***************************************************************************)
(* The weather command handler.  It is an asyncio coroutine: it runs       *)
(* without interruption up to the point where reply_text or send_photo     *)
(* suspends (get_weather contains no await of its own), so each handler    *)
(* is one step up to that point and one step for the completion of the     *)
(* send.  Handlers of different chats interleave at those points.          *)
(***************************************************************************)
NoReply == [t |-> "none", text |-> "", photo |-> NoFile]
TextReply(text) == [t |-> "text", text |-> text, photo |-> NoFile]
PhotoReply(content) == [t |-> "photo", text |-> "", photo |-> content]
\* An exception left the handler: nothing was sent to the chat.
HandlerRaised(exc) == [t |-> "raised", text |-> exc, photo |-> NoFile]

NoInvocation ==
    [live |-> FALSE, args |-> <<>>, city |-> PyNone, ret |-> OStr(""),
     calls |-> <<>>]
NoRender == [done |-> FALSE, city |-> PyNone, data |-> OStr("")]

\* The open file object handed to send_photo: whether the library has
\* already read it, and what it read.
Unread == [read |-> FALSE, content |-> NoFile]
ReadAs(content) == [read |-> TRUE, content |-> content]

NotFoundBody == ObjectBody(JStr("404"), WMissing, MMissing)
GoodBody(d, a, h) ==
    ObjectBody(JInt(SuccessCod), WList(<<[description |-> DStr(d)]>>),
               [t |-> "object", temp |-> JInt(a), humidity |-> JInt(h)])

\* The responses the handlers are run against.
PipelineResponses ==
    {TransportFailure("Timeout"),
     HttpResponse(404, NotFoundBody),
     HttpResponse(200, NotFoundBody),
     HttpResponse(200, ObjectBody(JInt(SuccessCod), WList(<<>>), MMissing)),
     HttpResponse(200, GoodBody(<<"c", "S">>, 185, 60)),
     HttpResponse(200, GoodBody(<<"c", "S">>, -5, 100))}

\* Line 66: the location of the command.
location(args) ==
    IF args # <<>> THEN Str(Join(args)) ELSE DEFAULT_LOCATION

\* Mutant: only an empty outcome is taken for an error.
is_error_outcome_empty(weather_data) ==
    weather_data.t = "str" /\ weather_data.text = ""

\* Line 69: `not weather_data or isinstance(weather_data, str)`.
is_error_outcome(weather_data) ==
    (weather_data.t = "str" /\ weather_data.text = "") \/ weather_data.t = "str"

Init ==
    /\ DEFAULT_LOCATION \in DefaultLocations
    /\ pc = [p \in Chats |-> "idle"]
    /\ inv = [p \in Chats |-> NoInvocation]
    /\ held = [p \in Chats |-> Unread]
    /\ out = [p \in Chats |-> NoReply]
    /\ file = NoFile
    /\ lastRender = NoRender
    /\ httpCalls = 0
    /\ started = 0
    /\ fetchIn = [city |-> PyNone, resp |-> TransportFailure("Timeout")]
    /\ fetchOut = Raised("not fetched", <<>>, {})

\* Lines 74-76, for a fetched weather_data: render, open weather.png and
\* call send_photo, up to the suspension inside send_photo.  fs is the state
\* of the file system; eager: the library reads the file object before
\* send_photo first suspends (otherwise it reads it later).
render_and_send(p, city, weather_data, fs, eager) ==
    \E g \in {create_weather_graph(city, weather_data, file, fs)} :
        /\ file' = g.content
        /\ lastRender' = IF g.exc = ""
                         THEN [done |-> TRUE, city |-> city, data |-> weather_data]
                         ELSE lastRender
        /\ IF g.exc # "" \/ fs = "open_fails"
           THEN /\ out' = [out EXCEPT ![p] =
                             HandlerRaised(IF g.exc # "" THEN g.exc ELSE "OSError")]
                /\ UNCHANGED <<pc, held>>
           ELSE /\ pc' = [pc EXCEPT ![p] = "send_photo"]
                /\ out' = [out EXCEPT ![p] = NoReply]
                /\ held' = [held EXCEPT ![p] =
                              IF eager THEN ReadAs(g.content) ELSE Unread]

\* Lines 65-76 up to the suspension inside reply_text or send_photo.
weather(p, args, resp) ==
    /\ pc[p] = "idle"
    /\ started < MaxInvocations
    /\ \E city \in {location(args)} :
       \E r \in {get_weather(city, resp)} :
           /\ started' = started + 1
           /\ httpCalls' = httpCalls + Len(r.calls)
           /\ inv' = [inv EXCEPT ![p] = [live |-> TRUE, args |-> args, city |-> city,
                                         ret |-> r.ret, calls |-> r.calls]]
           /\ IF is_error_outcome(r.ret)
              THEN /\ pc' = [pc EXCEPT ![p] = "reply_text"]
                   /\ out' = [out EXCEPT ![p] = NoReply]
                   /\ UNCHANGED <<file, lastRender, held>>
              ELSE \E fs \in FsStates, eager \in BOOLEAN :
                       render_and_send(p, city, r.ret, fs, eager)
    /\ UNCHANGED <<DEFAULT_LOCATION, fetchIn, fetchOut>>

\* Line 70: update.message.reply_text(weather_data) completes; line 71 returns.
reply_text(p) ==
    /\ pc[p] = "reply_text"
    /\ out' = [out EXCEPT ![p] = TextReply(inv[p].ret.text)]
    /\ pc' = [pc EXCEPT ![p] = "idle"]
    /\ UNCHANGED <<DEFAULT_LOCATION, inv, held, file, lastRender, httpCalls,
                   started, fetchIn, fetchOut>>

\* Line 76: context.bot.send_photo(photo=photo) completes: the photo sent is
\* what was read from the open weather.png, at the call or later.
send_photo(p) ==
    /\ pc[p] = "send_photo"
    /\ out' = [out EXCEPT ![p] =
                 PhotoReply(IF held[p].read THEN held[p].content ELSE file)]
    /\ held' = [held EXCEPT ![p] = Unread]
    /\ pc' = [pc EXCEPT ![p] = "idle"]
    /\ UNCHANGED <<DEFAULT_LOCATION, inv, file, lastRender, httpCalls,
                   started, fetchIn, fetchOut>>

Weather ==
    \E p \in Chats, args \in ArgLists, resp \in PipelineResponses :
        weather(p, args, resp)
ReplyText == \E p \in Chats : reply_text(p)
SendPhoto == \E p \in Chats : send_photo(p)

Next == Weather \/ ReplyText \/ SendPhoto

Spec == Init /\ [][Next]_vars

(***************************************************************************)
(* get_weather as a function of the location and the response: every       *)
(* location and every response of the bounded sets.                        *)
(***************************************************************************)
Cities == DefaultLocations \cup {Str(Join(a)) : a \in ArgLists \ {<<>>}}

NotFetched == Raised("not fetched", <<>>, {})

InitFetch ==
    /\ DEFAULT_LOCATION = PyNone
    /\ pc = [p \in Chats |-> "idle"]
    /\ inv = [p \in Chats |-> NoInvocation]
    /\ held = [p \in Chats |-> Unread]
    /\ out = [p \in Chats |-> NoReply]
    /\ file = NoFile
    /\ lastRender = NoRender
    /\ httpCalls = 0
    /\ started = 0
    /\ fetchIn \in [city : Cities, resp : Responses]
    /\ fetchOut = NotFetched

Fetch ==
    /\ fetchOut = NotFetched
    /\ fetchOut' = get_weather(fetchIn.city, fetchIn.resp)
    /\ UNCHANGED <<pipelineVars, fetchIn>>

NextFetch == Fetch

SpecFetch == InitFetch /\ [][NextFetch]_vars

(***************************************************************************)
(* Properties                                                              *)
(***************************************************************************)
Fetched == fetchOut # NotFetched
\* get_weather was given an HTTP response whose body is a JSON object.
ObjectPayload == fetchIn.resp.kind = "http" /\ fetchIn.resp.body.shape = "object"
InvalidLocationText(city) ==
    "Unable to fetch weather for " \o Format(city)
        \o ". Please check the city name and try again."
NetworkText ==
    "Unable to fetch weather due to a network issue. Please try again later."
UnexpectedText == "An unexpected error occurred. Please try again later."
\* The chart of a (location, result) pair, as the renderer is to draw it.
ChartOf(city, data) ==
    [t |-> "png", title |-> "Weather in " \o Format(city),
     labels |-> <<"Temperature", "Humidity">>,
     values |-> <<data.temperature.n, data.humidity.n>>, ylabel |-> "Values"]
\* Chat p took a step of its weather handler.
Stepped(p) == <<pc[p], inv[p], out[p]>>' # <<pc[p], inv[p], out[p]>>

\* C1: every weather invocation ends with a reply sent to the chat (a text
\* or a photo); no exception leaves the handler, also when rendering or
\* opening weather.png fails.
C1_EveryInvocationReplies ==
    \A p \in Chats :
        (inv[p].live /\ pc[p] = "idle") => out[p].t \in {"text", "photo"}

\* C2 as stated: whatever the HTTP status, a payload whose cod is not the
\* success code makes get_weather return the invalid-location text naming
\* the queried location.
C2_AnyPayloadInvalidLocation ==
    (Fetched /\ ObjectPayload /\ fetchIn.resp.body.cod # JInt(SuccessCod))
        => fetchOut.ret = OStr(InvalidLocationText(fetchIn.city))

\* C2 amended: for a response whose HTTP status is not 4xx/5xx, a payload
\* whose cod is not the success code makes get_weather return the
\* invalid-location text naming the queried location.
C2_InvalidLocation ==
    (Fetched /\ ObjectPayload /\ fetchIn.resp.body.cod # JInt(SuccessCod)
        /\ fetchIn.resp.status < 400)
        => fetchOut.ret = OStr(InvalidLocationText(fetchIn.city))

C2_Witness ==
    /\ Fetched /\ ObjectPayload
    /\ fetchIn.resp.status = 200
    /\ fetchIn.resp.body.cod = JStr("404")
    /\ fetchIn.city = Str("New York")
    /\ fetchOut.ret.text =
         "Unable to fetch weather for New York. Please check the city name and try again."

\* C3 as stated: a transport exception or any non-2xx status yields the
\* network-failure text and no member of the payload is read.
C3_Non2xxIsNetworkFailure ==
    (Fetched /\ (fetchIn.resp.kind = "exc"
                 \/ ~(200 <= fetchIn.resp.status /\ fetchIn.resp.status < 300)))
        => (fetchOut.ret = OStr(NetworkText) /\ fetchOut.read = {})

\* C3 amended: a transport exception or a 4xx/5xx status yields the
\* network-failure text and no member of the payload is read.
C3_TransportFailure ==
    (Fetched /\ (fetchIn.resp.kind = "exc"
                 \/ (400 <= fetchIn.resp.status /\ fetchIn.resp.status < 600)))
        => (fetchOut.ret = OStr(NetworkText) /\ fetchOut.read = {})

C3_Witness ==
    /\ Fetched /\ ObjectPayload
    /\ fetchIn.resp.status = 404
    /\ fetchIn.resp.body.cod = JStr("404")
    /\ fetchOut.ret = OStr(NetworkText)
    /\ fetchOut.read = {}

\* The 2xx response carries a success payload that is malformed, or a body
\* that cannot be parsed into the expected object.
MalformedSuccess ==
    /\ fetchIn.resp.kind = "http"
    /\ 200 <= fetchIn.resp.status /\ fetchIn.resp.status < 300
    /\ LET b == fetchIn.resp.body
       IN  \/ b.shape \in {"invalid", "list"}
           \/ /\ b.shape = "object"
              /\ b.cod = JInt(SuccessCod)
              /\ \/ b.weather.t = "missing"
                 \/ b.weather = WList(<<>>)
                 \/ (b.weather.t = "list" /\ b.weather.items # <<>>
                        /\ b.weather.items[1].description.t = "missing")
                 \/ b.main.t = "missing"
                 \/ (b.main.t = "object" /\ b.main.temp.t = "missing")
                 \/ (b.main.t = "object" /\ b.main.humidity.t = "missing")

\* C4: a malformed success payload, or a body that cannot be parsed, makes
\* get_weather return the unexpected-failure text (and nothing is raised).
C4_MalformedIsUnexpected ==
    (Fetched /\ MalformedSuccess)
        => (fetchOut.exc = "" /\ fetchOut.ret = OStr(UnexpectedText))

\* The 2xx response carries a well-formed success payload.
WellFormedSuccess ==
    /\ ObjectPayload
    /\ 200 <= fetchIn.resp.status /\ fetchIn.resp.status < 300
    /\ LET b == fetchIn.resp.body
       IN  /\ b.cod = JInt(SuccessCod)
           /\ b.weather.t = "list" /\ b.weather.items # <<>>
           /\ b.weather.items[1].description.t = "str"
           /\ b.main.t = "object"
           /\ b.main.temp.t = "int" /\ b.main.humidity.t = "int"

\* C5: for a well-formed success payload get_weather returns a result whose
\* description is weather[0].description with its first character in upper
\* case and all the others in lower case, and whose temperature and
\* humidity are main.temp and main.humidity unchanged.
C5_ResultEqualsPayload ==
    (Fetched /\ WellFormedSuccess) =>
        LET b == fetchIn.resp.body
            d == b.weather.items[1].description.chars
            r == fetchOut.ret
        IN  /\ fetchOut.exc = ""
            /\ r.t = "dict"
            /\ Len(r.description) = Len(d)
            /\ \A i \in 1..Len(d) :
                   r.description[i] = IF i = 1 THEN upper(d[i]) ELSE lower(d[i])
            /\ r.temperature = b.main.temp
            /\ r.humidity = b.main.humidity

C5_Witness ==
    /\ Fetched /\ WellFormedSuccess
    /\ fetchIn.resp.body.weather.items[1].description.chars = <<"c", "S">>
    /\ fetchIn.resp.body.main.temp = JInt(-5)
    /\ fetchOut.ret = ODict(<<"C", "s">>, JInt(-5), JInt(100))

\* C6: a step of a weather handler whose fetch returned an error text
\* leaves weather.png and the render history unchanged, hands no file to
\* send_photo, sends no photo and raises nothing; when the handler ends,
\* its reply is that text.
C6_ErrorRepliesTextOnly ==
    [][\A p \in Chats :
          (Stepped(p) /\ inv'[p].live /\ inv'[p].ret.t = "str") =>
              /\ file' = file
              /\ lastRender' = lastRender
              /\ held'[p] = Unread
              /\ pc'[p] \in {"reply_text", "idle"}
              /\ out'[p].t \in {"none", "text"}
              /\ pc'[p] = "idle" => out'[p] = TextReply(inv'[p].ret.text)]_vars

C6_Witness ==
    \E p \in Chats :
        /\ inv[p].live /\ pc[p] = "idle"
        /\ inv[p].ret = OStr(NetworkText)
        /\ out[p] = TextReply(NetworkText)
        /\ file.t = "png"

\* C7: /weather without arguments and with the default location unset
\* issues one request whose location parameter is the empty string.
C7_UnsetDefaultQueriesEmpty ==
    \A p \in Chats :
        (inv[p].live /\ inv[p].args = <<>> /\ DEFAULT_LOCATION = PyNone) =>
            inv[p].calls =
                <<"http://api.openweathermap.org/data/2.5/weather?q=&appid=KEY&units=metric">>

C9_LastWriteWins ==
    file = IF lastRender.done
           THEN ChartOf(lastRender.city, lastRender.data)
           ELSE NoFile

\* Two renders with different inputs were made; the file is the later one.
C9_Witness ==
    \E p, q \in Chats :
        /\ p # q
        /\ out[p].t = "photo" /\ out[q].t = "photo"
        /\ ChartOf(inv[p].city, inv[p].ret) # ChartOf(inv[q].city, inv[q].ret)
        /\ lastRender = [done |-> TRUE, city |-> inv[q].city, data |-> inv[q].ret]
        /\ file = ChartOf(inv[q].city, inv[q].ret)

\* C10: every weather invocation issues exactly one HTTP request: as many
\* requests were issued as invocations were started, one by each.
C10_OneRequestPerInvocation ==
    /\ httpCalls = started
    /\ \A p \in Chats : inv[p].live => Len(inv[p].calls) = 1

\* Two invocations for the same location, the first one failed: two requests.
C10_Witness ==
    \E p, q \in Chats :
        /\ p # q
        /\ inv[p].live /\ inv[q].live
        /\ inv[p].city = inv[q].city
        /\ inv[p].ret = OStr(NetworkText)
        /\ started = 2 /\ httpCalls = 2

====
